---- MODULE Spec2Model ----
(***************************************************************************)
(* Model of Microlensing.py: the point-lens microlensing simulator.        *)
(*                                                                         *)
(* Numbers.  The program computes in IEEE doubles (numpy).  Here a number  *)
(* is a whole number of thousandths, rounded to nearest after every        *)
(* operation as a double is rounded after every operation, or one of three *)
(* reserved values: NaN and the two infinities.  Division by zero, 0/0,    *)
(* inf*0 and the square root of a negative number give what numpy gives.   *)
(* Quantities of astropy that are far below one thousandth are held in a   *)
(* smaller unit, named at each definition.  The arguments used keep every  *)
(* finite result far inside the range of the finite values.                *)
(***************************************************************************)
EXTENDS Integers, Sequences, FiniteSets, TLC

VARIABLES
    input,       \* content of INPUT.json
    dirExists,   \* whether the directory images/ exists
    pc,          \* position of run
    params,      \* ds, s_flux, s_vel, l_mass, dl, y0, t0 of run
    theta_E,     \* run's theta_E, in nano-arcseconds
    tE,          \* run's tE, in days
    geomCalls,   \* how many times the lens scales were computed
    dense,       \* run's t, y1, y2, xp1, xp2, xm1, xm2, magn
    prompts,     \* CreateDir: answers read so far by the running call
    stdout,      \* what the program has printed
    t_sparse,    \* run's t_sparse
    n,           \* run's n
    frame,       \* what the last call of Plot was given
    frames,      \* the frames written to images/, in the order written
    animCalls,   \* how many times Animation was called
    encoder,     \* how the last ffmpeg process ended
    outputs,     \* the result files present in the working directory
    ans,         \* CreateDir's ans, while the call runs
    call         \* a single application of a function of the module

vars == <<input, dirExists, pc, params, theta_E, tE, geomCalls, dense, prompts,
          stdout, t_sparse, n, frame, frames, animCalls, encoder, outputs, ans, call>>

-----------------------------------------------------------------------------
(* Bounds of the model *)

\* answers other than 'y' and 'n' that one call of CreateDir is given
MaxPrompts == 2
\* the functions are applied at whole coordinates -GridMax..GridMax ...
GridMax == 8
\* ... and at the multiples of 0.05 up to FineMax * 0.05
FineMax == 20
\* centres given to X_ext_source: multiples of 0.05 up to ExtMax * 0.05
ExtMax == 2

-----------------------------------------------------------------------------
(* Numbers *)

\* a finite value v stands for v / Scale
Scale == 10^3

\* the values that are no finite number, outside the range of the finite ones
PInf == 2^30
NInf == -PInf
NaN == PInf + 1
\* a variable of the program that has no value yet
Unset == PInf + 2

Inf(s) == IF s < 0 THEN NInf ELSE PInf
IsInf(a) == a = PInf \/ a = NInf
IsNaN(a) == a = NaN
IsFin(a) == ~IsNaN(a) /\ ~IsInf(a)

Abs(i) == IF i < 0 THEN -i ELSE i
Sgn(i) == IF i < 0 THEN -1 ELSE IF i > 0 THEN 1 ELSE 0

\* a * b / c rounded to nearest, for a, b >= 0 and c > 0
MulDivN(a, b, c) == (a \div c) * b + ((a % c) * b + c \div 2) \div c
\* the same, symmetric in sign
MulDiv(a, b, c) == Sgn(a) * Sgn(b) * Sgn(c) * MulDivN(Abs(a), Abs(b), Abs(c))

RECURSIVE Newton(_, _)
Newton(x, g) ==
    LET h == (g + x \div g) \div 2
    IN IF h >= g THEN g ELSE Newton(x, h)

\* the square root of x >= 0 rounded to nearest
ISqrt(x) ==
    IF x = 0 THEN 0
    ELSE LET s == Newton(x, IF x < 46340 THEN x ELSE 46340)
         IN IF x - s * s > s THEN s + 1 ELSE s

FNeg(a) == IF IsNaN(a) THEN NaN ELSE -a

FAdd(a, b) ==
    IF IsNaN(a) \/ IsNaN(b) THEN NaN
    ELSE IF IsInf(a) THEN (IF IsInf(b) /\ b # a THEN NaN ELSE a)
    ELSE IF IsInf(b) THEN b
    ELSE a + b

FSub(a, b) == FAdd(a, FNeg(b))

FMul(a, b) ==
    IF IsNaN(a) \/ IsNaN(b) THEN NaN
    ELSE IF IsInf(a) \/ IsInf(b)
         THEN (IF a = 0 \/ b = 0 THEN NaN ELSE Inf(Sgn(a) * Sgn(b)))
    ELSE MulDiv(a, b, Scale)

FDiv(a, b) ==
    IF IsNaN(a) \/ IsNaN(b) THEN NaN
    ELSE IF IsInf(a)
         THEN (IF IsInf(b) THEN NaN ELSE Inf(IF b < 0 THEN -a ELSE a))
    ELSE IF IsInf(b) THEN 0
    ELSE IF b = 0 THEN (IF a = 0 THEN NaN ELSE Inf(a))
    ELSE MulDiv(a, Scale, b)

FSqrt(a) ==
    IF IsNaN(a) THEN NaN
    ELSE IF a < 0 THEN NaN
    ELSE IF IsInf(a) THEN a
    ELSE ISqrt(a * Scale)

FSq(a) == FMul(a, a)

\* a quantity times the positive constant num / den (a change of unit)
FConv(a, num, den) == IF IsFin(a) THEN MulDiv(a, num, den) ELSE a

\* linspace with the end point left out (endpoint=False)
linspace_NoEndpoint(start, stop, num) ==
    [i \in 1..num |-> start + MulDiv(i - 1, stop - start, num)]

\* np.linspace(start, stop, num), endpoint included, on whole units
linspace(start, stop, num) ==
    [i \in 1..num |-> start + MulDiv(i - 1, stop - start, num - 1)]

-----------------------------------------------------------------------------
(* Angles.  An angle is a whole number of units, TwoPi units to the turn.  *)

AngularSamples == 360
\* every multiple of a turn / 360 and of a turn / 359 is a whole number of units
TwoPi == AngularSamples * (AngularSamples - 1)
HalfTurn == TwoPi \div 2

\* x (pi - x) on the half turn, scaled down to keep the quotient in range
Bump(x) == (x * (HalfTurn - x)) \div 4096

\* sine of 0 <= x <= pi in thousandths (Bhaskara's rational form, exact at 0, pi/2, pi)
SinHalf(x) == MulDivN(4 * Bump(x), Scale, 5 * Bump(HalfTurn \div 2) - Bump(x))

Sin(u) ==
    LET w == u % TwoPi
    IN IF w <= HalfTurn THEN SinHalf(w) ELSE -SinHalf(w - HalfTurn)

Cos(u) == Sin(u + TwoPi \div 4)

-----------------------------------------------------------------------------
(* The functions of the module *)

\* G M_sun / c^2 in units of 1e-22 kpc
GMsunC2 == 478541
\* np.rad2deg(1.0) * 3600.0: arcseconds in a radian
aconv == 206265
\* kilometres in 1e-12 kpc
KmPerPicoKpc == 30857
SecPerDay == 86400

\* the square root of a quantity in units of 1e-22, in units of 1e-12
QSqrt(a) ==
    IF IsNaN(a) THEN NaN
    ELSE IF a < 0 THEN NaN
    ELSE IF IsInf(a) THEN a
    ELSE ISqrt(a * 100)

\* theta_E in nano-arcseconds
EinsteinRadius(l_mass, ds, dl) ==
    LET GMc2 == FConv(l_mass, GMsunC2, Scale)   \* (G * mass/c/c).to('kpc'), 1e-22 kpc
        radicand == FDiv(FDiv(FMul(FConv(GMc2, 4, 1), FSub(ds, dl)), dl), ds)
    IN FConv(QSqrt(radicand), aconv, 1000)      \* picoradians to nano-arcseconds

\* tE in days
EinsteinCrossTime(theta, dl, s_vel) ==
    LET rad == FConv(theta, 1000, aconv)                  \* .to('radian'): picoradians
        km == FConv(FMul(rad, dl), KmPerPicoKpc, 1000)    \* .to('km'): thousands of km
        sec == FDiv(km, s_vel)                            \* thousands of seconds
    IN FConv(sec, 10 * Scale, SecPerDay \div 100)         \* .to('day')

Y(t, t0, tEv, u0) ==
    <<[i \in DOMAIN t |-> FDiv(FSub(t[i], t0), tEv)],
      [i \in DOMAIN t |-> FMul(Scale, u0)]>>

\* X with the two images exchanged
XPoint_Exchanged(y1, y2, plus) ==
    LET r2 == FAdd(FSq(y1), FSq(y2))
        Q == FDiv(FSqrt(FAdd(r2, 4 * Scale)), FSqrt(r2))
        f == IF plus THEN FMul(Scale \div 2, FSub(Scale, Q))
                     ELSE FMul(Scale \div 2, FAdd(Scale, Q))
    IN <<FMul(f, y1), FMul(f, y2)>>

\* one element of X
XPoint(y1, y2, plus) ==
    LET r2 == FAdd(FSq(y1), FSq(y2))
        Q == FDiv(FSqrt(FAdd(r2, 4 * Scale)), FSqrt(r2))
        f == IF plus THEN FMul(Scale \div 2, FAdd(Scale, Q))
                     ELSE FMul(Scale \div 2, FSub(Scale, Q))
    IN <<FMul(f, y1), FMul(f, y2)>>

X(y1, y2, plus) ==
    LET x == [i \in DOMAIN y1 |-> XPoint(y1[i], y2[i], plus)]
    IN <<[i \in DOMAIN y1 |-> x[i][1]], [i \in DOMAIN y1 |-> x[i][2]]>>

\* Magnification with y**2 - 2 for y**2 + 2
MagnificationPoint_Minus(y1, y2, s_flux) ==
    LET y == FSqrt(FAdd(FSq(y1), FSq(y2)))
        y_2 == FSq(y)
    IN FDiv(FDiv(FMul(s_flux, FSub(y_2, 2 * Scale)), y),
            FSqrt(FAdd(y_2, 4 * Scale)))

\* one element of Magnification
MagnificationPoint(y1, y2, s_flux) ==
    LET y == FSqrt(FAdd(FSq(y1), FSq(y2)))
        y_2 == FSq(y)
    IN FDiv(FDiv(FMul(s_flux, FAdd(y_2, 2 * Scale)), y),
            FSqrt(FAdd(y_2, 4 * Scale)))

Magnification(y1, y2, s_flux) ==
    [i \in DOMAIN y1 |-> MagnificationPoint(y1[i], y2[i], s_flux)]

\* X_ext_source's phi
phi == linspace(0, TwoPi, AngularSamples)
CosPhi == [k \in DOMAIN phi |-> Cos(phi[k])]
SinPhi == [k \in DOMAIN phi |-> Sin(phi[k])]

\* y1 and y2 are arrays of one element, broadcast against phi; lines 226-232
\* are the lines of X
X_ext_source(y1, y2, r, plus) ==
    LET yy1 == [k \in DOMAIN phi |-> FAdd(y1[1], FMul(r, CosPhi[k]))]
        yy2 == [k \in DOMAIN phi |-> FAdd(y2[1], FMul(r, SinPhi[k]))]
    IN X(yy1, yy2, plus)

-----------------------------------------------------------------------------
(* The run *)

DenseCount == 2000
FrameCount == 100

\* the source radius run gives X_ext_source: 0.05
SourceRadius == Scale \div 20

\* the parameter files the run is started with
Inputs ==
    [ds : {8 * Scale},
     s_flux : {Scale},
     s_vel : {200 * Scale},
     l_mass : {Scale \div 2},
     dl : {4 * Scale, 8 * Scale, 9 * Scale},
     u0 : {Scale \div 10, Scale \div 2},
     t0 : {0}]

\* what the user may type at the prompt
Answers == {"y", "n", "", "yes"}

Idle == [fn |-> "none"]

\* the values of run's variables before they are assigned
NoSeries == <<>>
NoParams ==
    [ds |-> Unset, s_flux |-> Unset, s_vel |-> Unset, l_mass |-> Unset, dl |-> Unset,
     y0 |-> Unset, t0 |-> Unset]
NoDense ==
    [t |-> NoSeries, y1 |-> NoSeries, y2 |-> NoSeries, xp1 |-> NoSeries,
     xp2 |-> NoSeries, xm1 |-> NoSeries, xm2 |-> NoSeries, magn |-> NoSeries]
NoFrame ==
    [xp1_e |-> NoSeries, xp2_e |-> NoSeries, xm1_e |-> NoSeries, xm2_e |-> NoSeries,
     tt |-> Unset, magn_ext |-> NoSeries, n |-> 0]

Init ==
    /\ input \in Inputs
    /\ dirExists \in BOOLEAN
    /\ pc = "start"
    /\ params = NoParams
    /\ theta_E = Unset
    /\ tE = Unset
    /\ geomCalls = 0
    /\ dense = NoDense
    /\ prompts = 0
    /\ stdout = <<>>
    /\ t_sparse = NoSeries
    /\ n = 0
    /\ frame = NoFrame
    /\ frames = <<>>
    /\ animCalls = 0
    /\ encoder = "none"
    /\ outputs = {}
    /\ ans = ""
    /\ call = Idle

ReadParams ==
    /\ pc = "start"
    /\ params' = [ds |-> input.ds, s_flux |-> input.s_flux, s_vel |-> input.s_vel,
                  l_mass |-> input.l_mass, dl |-> input.dl, y0 |-> input.u0,
                  t0 |-> input.t0]
    /\ pc' = "lens"
    /\ UNCHANGED <<input, dirExists, theta_E, tE, geomCalls, dense, prompts, stdout,
                   t_sparse, n, frame, frames, animCalls, encoder, outputs, ans, call>>

\* run, lines 308-309
LensScale ==
    /\ pc = "lens"
    /\ theta_E' = EinsteinRadius(params.l_mass, params.ds, params.dl)
    /\ tE' = EinsteinCrossTime(theta_E', params.dl, params.s_vel)
    /\ geomCalls' = geomCalls + 1
    /\ pc' = "grid"
    /\ UNCHANGED <<input, dirExists, params, dense, prompts, stdout, t_sparse, n, frame,
                   frames, animCalls, encoder, outputs, ans, call>>

\* t0 + np.linspace(lo, hi, num) * tEalue
TimeGrid(t0, lo, hi, num, tEv) ==
    LET g == linspace(lo * Scale, hi * Scale, num)
    IN [i \in DOMAIN g |-> FAdd(t0, FMul((g[i]), tEv))]

\* run, lines 311-316
DenseSeries ==
    /\ pc = "grid"
    /\ LET t == TimeGrid(params.t0, -8, 8, DenseCount, tE)
           y == Y(t, params.t0, tE, params.y0)
           xp == X(y[1], y[2], TRUE)
           xm == X(y[1], y[2], FALSE)
       IN dense' = [t |-> t, y1 |-> y[1], y2 |-> y[2], xp1 |-> xp[1], xp2 |-> xp[2],
                    xm1 |-> xm[1], xm2 |-> xm[2],
                    magn |-> Magnification(y[1], y[2], params.s_flux)]
    /\ pc' = "createdir"
    /\ UNCHANGED <<input, dirExists, params, theta_E, tE, geomCalls, prompts, stdout,
                   t_sparse, n, frame, frames, animCalls, encoder, outputs, ans, call>>

\* CreateDir, line 70: the call returns at once when the directory exists
CreateDirEnter ==
    /\ pc = "createdir"
    /\ pc' = IF dirExists THEN "counting" ELSE "prompt"
    /\ UNCHANGED <<input, dirExists, params, theta_E, tE, geomCalls, dense, prompts,
                   stdout, t_sparse, n, frame, frames, animCalls, encoder, outputs, ans,
                   call>>

\* CreateDir, line 73: input() returns what the user typed
CreateDirRead ==
    /\ pc = "prompt"
    /\ \E a \in Answers :
          /\ a \in {"y", "n"} \/ prompts < MaxPrompts
          /\ ans' = a
    /\ prompts' = prompts + 1
    /\ pc' = "answered"
    /\ UNCHANGED <<input, dirExists, params, theta_E, tE, geomCalls, dense, stdout,
                   t_sparse, n, frame, frames, animCalls, encoder, outputs, call>>

\* CreateDir that goes on asking after 'n'
CreateDirAct_AsksAgainAfterNo ==
    /\ pc = "answered"
    /\ IF ans = "y"
       THEN /\ dirExists' \in BOOLEAN
            /\ stdout' = stdout
            /\ pc' = "counting"
       ELSE IF ans = "n"
       THEN /\ dirExists' = dirExists
            /\ stdout' = Append(stdout, "Exit")
            /\ pc' = "prompt"
       ELSE /\ dirExists' = dirExists
            /\ stdout' = stdout
            /\ pc' = "prompt"
    /\ ans' = IF pc' = "counting" THEN "" ELSE ans
    /\ prompts' = IF pc' = "counting" THEN 0 ELSE prompts
    /\ UNCHANGED <<input, params, theta_E, tE, geomCalls, dense, t_sparse, n, frame,
                   frames, animCalls, encoder, outputs, call>>

\* CreateDir, lines 74-80.  mkdir's exit status is not looked at: it may fail.
CreateDirAct ==
    /\ pc = "answered"
    /\ IF ans = "y"
       THEN /\ dirExists' \in BOOLEAN
            /\ stdout' = stdout
            /\ pc' = "counting"
       ELSE IF ans = "n"
       THEN /\ dirExists' = dirExists
            /\ stdout' = Append(stdout, "Exit")
            /\ pc' = "counting"
       ELSE /\ dirExists' = dirExists
            /\ stdout' = stdout
            /\ pc' = "prompt"
    /\ ans' = IF pc' = "counting" THEN "" ELSE ans
    /\ prompts' = IF pc' = "counting" THEN 0 ELSE prompts
    /\ UNCHANGED <<input, params, theta_E, tE, geomCalls, dense, t_sparse, n, frame,
                   frames, animCalls, encoder, outputs, call>>

\* run, lines 330-333
StartCounting ==
    /\ pc = "counting"
    /\ stdout' = Append(stdout, "Start counting and plotting")
    /\ t_sparse' = TimeGrid(params.t0, -2, 2, FrameCount, tE)
    /\ n' = 0
    /\ pc' = "loop"
    /\ UNCHANGED <<input, dirExists, params, theta_E, tE, geomCalls, dense, prompts,
                   frame, frames, animCalls, encoder, outputs, ans, call>>

\* Plot whose savefig creates the missing directory
Plot_CreatesDir(xp_e, xm_e, tt, magn_ext, k) ==
    /\ frame' = [xp1_e |-> xp_e[1], xp2_e |-> xp_e[2], xm1_e |-> xm_e[1],
                 xm2_e |-> xm_e[2], tt |-> tt, magn_ext |-> magn_ext, n |-> k]
    /\ frames' = Append(frames, [n |-> k, tt |-> tt])
    /\ pc' = "loop"

\* Plot: plt.savefig raises when images/ is missing, and the run ends there
Plot(xp_e, xm_e, tt, magn_ext, k) ==
    /\ frame' = [xp1_e |-> xp_e[1], xp2_e |-> xp_e[2], xm1_e |-> xm_e[1],
                 xm2_e |-> xm_e[2], tt |-> tt, magn_ext |-> magn_ext, n |-> k]
    /\ IF dirExists
       THEN /\ frames' = Append(frames, [n |-> k, tt |-> tt])
            /\ pc' = "loop"
       ELSE /\ frames' = frames
            /\ pc' = "failed"

\* the loop with n += 1 after the call of Plot
RunFrame_CountsAfterPlot ==
    /\ pc = "loop"
    /\ n < Len(t_sparse)
    /\ n' = n + 1
    /\ LET tt == t_sparse[n + 1]
           y_ext == Y(<<tt>>, params.t0, tE, params.y0)
           xp_e == X_ext_source(y_ext[1], y_ext[2], SourceRadius, TRUE)
           xm_e == X_ext_source(y_ext[1], y_ext[2], SourceRadius, FALSE)
           magn_ext == Magnification(y_ext[1], y_ext[2], params.s_flux)
       IN Plot(xp_e, xm_e, tt, magn_ext, n)
    /\ UNCHANGED <<input, dirExists, params, theta_E, tE, geomCalls, dense, prompts,
                   stdout, t_sparse, animCalls, encoder, outputs, ans, call>>

\* the loop with the lens scales computed again in every iteration
RunFrame_ComputesScalesAgain ==
    /\ pc = "loop"
    /\ n < Len(t_sparse)
    /\ n' = n + 1
    /\ theta_E' = EinsteinRadius(params.l_mass, params.ds, params.dl)
    /\ tE' = EinsteinCrossTime(theta_E', params.dl, params.s_vel)
    /\ geomCalls' = geomCalls + 1
    /\ LET tt == t_sparse[n + 1]
           y_ext == Y(<<tt>>, params.t0, tE', params.y0)
           xp_e == X_ext_source(y_ext[1], y_ext[2], SourceRadius, TRUE)
           xm_e == X_ext_source(y_ext[1], y_ext[2], SourceRadius, FALSE)
           magn_ext == Magnification(y_ext[1], y_ext[2], params.s_flux)
       IN Plot(xp_e, xm_e, tt, magn_ext, n')
    /\ UNCHANGED <<input, dirExists, params, dense, prompts,
                   stdout, t_sparse, animCalls, encoder, outputs, ans, call>>

\* run, lines 334-344: one iteration of the loop over t_sparse
RunFrame ==
    /\ pc = "loop"
    /\ n < Len(t_sparse)
    /\ n' = n + 1
    /\ LET tt == t_sparse[n + 1]
           y_ext == Y(<<tt>>, params.t0, tE, params.y0)
           xp_e == X_ext_source(y_ext[1], y_ext[2], SourceRadius, TRUE)
           xm_e == X_ext_source(y_ext[1], y_ext[2], SourceRadius, FALSE)
           magn_ext == Magnification(y_ext[1], y_ext[2], params.s_flux)
       IN Plot(xp_e, xm_e, tt, magn_ext, n')
    /\ UNCHANGED <<input, dirExists, params, theta_E, tE, geomCalls, dense, prompts,
                   stdout, t_sparse, animCalls, encoder, outputs, ans, call>>

\* Animation: the exit status of ffmpeg is not looked at
Animation ==
    /\ animCalls' = animCalls + 1
    /\ \E ok \in BOOLEAN :
          /\ encoder' = IF ok THEN "ok" ELSE "failed"
          /\ outputs' = IF ok THEN (outputs \cup {"animation.mp4"})
                              ELSE (outputs \ {"animation.mp4"})

\* run, lines 346-347: the loop is over
RunAnimation ==
    /\ pc = "loop"
    /\ n = Len(t_sparse)
    /\ stdout' = Append(stdout, "Start creating animation")
    /\ Animation
    /\ pc' = "finish"
    /\ UNCHANGED <<input, dirExists, params, theta_E, tE, geomCalls, dense, prompts,
                   t_sparse, n, frame, frames, ans, call>>

\* run, lines 349-363
RunFinish ==
    /\ pc = "finish"
    /\ outputs' = outputs \cup {"Microlensing_full.png"}
    /\ stdout' = Append(stdout, "Done!")
    /\ pc' = "done"
    /\ UNCHANGED <<input, dirExists, params, theta_E, tE, geomCalls, dense, prompts,
                   t_sparse, n, frame, frames, animCalls, encoder, ans, call>>

Next ==
    \/ ReadParams
    \/ LensScale
    \/ DenseSeries
    \/ CreateDirEnter
    \/ CreateDirRead
    \/ CreateDirAct
    \/ StartCounting
    \/ RunFrame
    \/ RunAnimation
    \/ RunFinish

Spec == Init /\ [][Next]_vars

\* every step but the user's answer is the program's own and is taken
FairSpec == Spec /\ WF_vars(CreateDirAct)

-----------------------------------------------------------------------------
(* The functions applied on their own, once each, to arguments of a grid *)

Grid ==
    {k * Scale : k \in -GridMax..GridMax}
        \cup {k * (Scale \div 20) : k \in -FineMax..FineMax}

ExtGrid == {k * (Scale \div 20) : k \in -ExtMax..ExtMax}

\* baseline fluxes a parameter file may hold: ReadParams takes any number
Fluxes == {-Scale, 0, Scale, 2 * Scale + Scale \div 2}

PureInit ==
    /\ input = [ds |-> 8 * Scale, s_flux |-> Scale, s_vel |-> 200 * Scale,
                l_mass |-> Scale \div 2, dl |-> 4 * Scale,
                u0 |-> Scale \div 10, t0 |-> 0]
    /\ dirExists = TRUE
    /\ pc = "start"
    /\ params = NoParams
    /\ theta_E = Unset
    /\ tE = Unset
    /\ geomCalls = 0
    /\ dense = NoDense
    /\ prompts = 0
    /\ stdout = <<>>
    /\ t_sparse = NoSeries
    /\ n = 0
    /\ frame = NoFrame
    /\ frames = <<>>
    /\ animCalls = 0
    /\ encoder = "none"
    /\ outputs = {}
    /\ ans = ""
    /\ call = Idle

RunVars == <<input, dirExists, pc, params, theta_E, tE, geomCalls, dense, prompts,
             stdout, t_sparse, n, frame, frames, animCalls, encoder, outputs, ans>>

ApplyX ==
    /\ call = Idle
    /\ \E a \in Grid, b \in Grid, plus \in BOOLEAN :
          call' = [fn |-> "X", y1 |-> a, y2 |-> b, plus |-> plus,
                   res |-> X(<<a>>, <<b>>, plus)]
    /\ UNCHANGED RunVars

ApplyMagnification ==
    /\ call = Idle
    /\ \E a \in Grid, b \in Grid, s \in Fluxes :
          call' = [fn |-> "Magnification", y1 |-> a, y2 |-> b,
                   s_flux |-> s,
                   res |-> Magnification(<<a>>, <<b>>, s)]
    /\ UNCHANGED RunVars

ApplyXExt ==
    /\ call = Idle
    /\ \E a \in ExtGrid, b \in ExtGrid, plus \in BOOLEAN :
          call' = [fn |-> "X_ext_source", y1 |-> a, y2 |-> b,
                   r |-> SourceRadius, plus |-> plus, phi |-> phi,
                   res |-> X_ext_source(<<a>>, <<b>>, SourceRadius, plus)]
    /\ UNCHANGED RunVars

PureNext ==
    \/ ApplyX
    \/ ApplyMagnification
    \/ ApplyXExt

PureSpec == PureInit /\ [][PureNext]_vars

-----------------------------------------------------------------------------
(* Properties of the run *)

Printed(msg) == \E i \in 1..Len(stdout) : stdout[i] = msg

AllFinite(a) == \A i \in DOMAIN a : IsFin(a[i])

\* the run was started with lensDistance = sourceDistance
EqualDistances == input.dl = input.ds

\* C1: a run started with lensDistance = sourceDistance aborts before any time
\* grid is sampled: no zero or NaN scale reaches Y, X or Magnification, no frame
\* is rendered and Animation is never called.
C1_AbortsOnEqualDistances ==
    EqualDistances =>
        /\ pc \in {"start", "lens", "grid"}
        /\ dense = NoDense
        /\ t_sparse = NoSeries
        /\ frame = NoFrame
        /\ frames = <<>>
        /\ animCalls = 0

\* C2: when the video encoder fails, run does not end as a run whose encoding
\* succeeded ('Done!'), and the numeric series stay as they were computed.
C2_EncoderFailurePropagates ==
    encoder = "failed" =>
        /\ pc # "done"
        /\ ~Printed("Done!")
        /\ dense # NoDense

\* C4: the k-th frame written has index k and is that of the k-th sparse time;
\* the index Plot is given is the count of iterations; with a positive crossing
\* time the frames follow increasing time; when the loop has ended, FrameCount
\* frames with the indices 1..FrameCount have been written.
C4_FrameIndex ==
    /\ Len(frames) <= FrameCount
    /\ \A k \in 1..Len(frames) : frames[k].n = k /\ frames[k].tt = t_sparse[k]
    /\ frame # NoFrame => frame.n = n /\ n >= 1
    /\ pc = "loop" => Len(frames) = n
    /\ (IsFin(tE) /\ tE > 0) =>
           \A k \in 1..(Len(frames) - 1) : frames[k].tt < frames[k + 1].tt
    /\ pc \in {"finish", "done"} =>
           /\ Len(frames) = FrameCount
           /\ {frames[k].n : k \in 1..Len(frames)} = 1..FrameCount

C4_Witness ==
    /\ pc = "done"
    /\ Len(frames) = FrameCount
    /\ IsFin(tE) /\ tE > 0

\* C5: the Einstein radius and the crossing time are computed once, before the
\* first sample is evaluated, and no later step computes or changes them.
C5_ScalesComputedOnce ==
    /\ [](geomCalls = IF pc \in {"start", "lens"} THEN 0 ELSE 1)
    /\ [](dense # NoDense \/ t_sparse # NoSeries \/ frame # NoFrame => geomCalls = 1)
    /\ [][pc # "lens" => theta_E' = theta_E /\ tE' = tE /\ geomCalls' = geomCalls]_vars

C5_Witness ==
    /\ pc = "done"
    /\ geomCalls = 1
    /\ Len(frames) = FrameCount
    /\ tE = EinsteinCrossTime(theta_E, params.dl, params.s_vel)

\* C9: CreateDir does not prompt when the directory exists; when it is missing
\* it prompts again after every answer other than 'y' and 'n', creates the
\* directory only on 'y', creates nothing on 'n', and returns after the first
\* 'y' or 'n'.
C9_CreateDir ==
    /\ [](pc \in {"prompt", "answered"} => ~dirExists)
    /\ [][pc = "createdir" /\ dirExists => pc' = "counting"]_vars
    /\ [][pc = "createdir" /\ ~dirExists => pc' = "prompt"]_vars
    /\ [][pc = "answered" /\ ans \notin {"y", "n"} =>
              pc' = "prompt" /\ dirExists' = dirExists /\ stdout' = stdout]_vars
    /\ [][dirExists' # dirExists => pc = "answered" /\ ans = "y" /\ dirExists']_vars
    /\ [][pc = "answered" /\ ans = "n" => pc' = "counting" /\ ~dirExists']_vars
    /\ [][pc = "answered" /\ ans = "y" => pc' = "counting"]_vars
    /\ (pc = "answered" /\ ans \in {"y", "n"}) ~> (pc = "counting")

C9_Witness ==
    /\ pc = "answered"
    /\ ans = "n"
    /\ prompts > 1
    /\ ~dirExists

-----------------------------------------------------------------------------
(* Properties of the functions *)

Norm2(a, b) == a * a + b * b

\* the arguments of the application are not both zero
Apart == Norm2(call.y1, call.y2) > 0

\* the boundary points X_ext_source derives from its arguments
Boundary(k) ==
    <<FAdd(call.y1, FMul(call.r, CosPhi[k])), FAdd(call.y2, FMul(call.r, SinPhi[k]))>>

\* C3: at a separation of exactly zero Magnification, X and X_ext_source give
\* no NaN and no infinity.
C3_ZeroSeparationDetected ==
    /\ call.fn = "Magnification" /\ ~Apart => AllFinite(call.res)
    /\ call.fn = "X" /\ ~Apart => AllFinite(call.res[1]) /\ AllFinite(call.res[2])
    /\ call.fn = "X_ext_source" =>
           \A k \in DOMAIN call.phi :
               Boundary(k) = <<0, 0>> =>
                   IsFin(call.res[1][k]) /\ IsFin(call.res[2][k])

\* C6 as stated: sample k is at k 2 pi / N, below 2 pi, and no two samples are
\* the same boundary point.
C6_HalfOpen ==
    call.fn = "X_ext_source" =>
        /\ Len(call.phi) = AngularSamples
        /\ \A k \in 1..Len(call.phi) :
               /\ call.phi[k] * AngularSamples = (k - 1) * TwoPi
               /\ call.phi[k] < TwoPi
        /\ \A j, k \in 1..Len(call.phi) :
               j # k => call.phi[j] % TwoPi # call.phi[k] % TwoPi

\* C6 amended: the N samples are equally spaced over the closed interval
\* [0, 2 pi], sample k at k 2 pi / (N - 1); the last one is at 2 pi, the
\* angle of the boundary point of the first; the others are below 2 pi and
\* distinct.
C6_Closed ==
    call.fn = "X_ext_source" =>
        /\ Len(call.phi) = AngularSamples
        /\ \A k \in 1..Len(call.phi) :
               call.phi[k] * (AngularSamples - 1) = (k - 1) * TwoPi
        /\ call.phi[AngularSamples] = TwoPi
        /\ \A k \in 1..(AngularSamples - 1) : call.phi[k] < TwoPi
        /\ \A j, k \in 1..(AngularSamples - 1) : j # k => call.phi[j] # call.phi[k]
        /\ call.phi[AngularSamples] % TwoPi = call.phi[1] % TwoPi

C6_Witness ==
    /\ call.fn = "X_ext_source"
    /\ call.phi[AngularSamples] = TwoPi
    /\ call.phi[2] = AngularSamples

\* the image of the application, and the source, as whole thousandths
Img == <<call.res[1][1], call.res[2][1]>>
Src == <<call.y1, call.y2>>
Dot == Img[1] * Src[1] + Img[2] * Src[2]
Cross == Img[1] * Src[2] - Img[2] * Src[1]

\* on the line through the lens and the source, to the rounding of the image
Colinear == 2 * Abs(Cross) <= Abs(Src[1]) + Abs(Src[2])

ImgFinite == IsFin(call.res[1][1]) /\ IsFin(call.res[2][1])

\* C7 as stated: |x_plus| > r > |x_minus|, and both images are on the line of
\* the source in its own direction.
C7_BothImagesSourceSide ==
    call.fn = "X" /\ Apart =>
        /\ ImgFinite
        /\ Colinear
        /\ Dot > 0
        /\ call.plus => Norm2(Img[1], Img[2]) > Norm2(Src[1], Src[2])
        /\ ~call.plus => Norm2(Img[1], Img[2]) < Norm2(Src[1], Src[2])

\* C7 amended: the plus image is on the source's side with |x_plus| > r; the
\* minus image is on the line of the source on the other side of the lens,
\* nearer than the source when r >= 1 and farther when r <= 0.7.
C7_ImagesOppositeSides ==
    call.fn = "X" /\ Apart =>
        /\ ImgFinite
        /\ Colinear
        /\ call.plus =>
               /\ Dot > 0
               /\ Norm2(Img[1], Img[2]) > Norm2(Src[1], Src[2])
        /\ ~call.plus =>
               /\ Dot < 0
               /\ Norm2(Src[1], Src[2]) >= Scale * Scale =>
                      Norm2(Img[1], Img[2]) < Norm2(Src[1], Src[2])
               /\ Norm2(Src[1], Src[2]) <= (49 * Scale * Scale) \div 100 =>
                      Norm2(Img[1], Img[2]) > Norm2(Src[1], Src[2])

C7_Witness ==
    /\ call.fn = "X"
    /\ ~call.plus
    /\ Apart
    /\ Norm2(Src[1], Src[2]) <= (49 * Scale * Scale) \div 100
    /\ Norm2(Img[1], Img[2]) > Norm2(Src[1], Src[2])
    /\ Dot < 0

\* C8 as stated: Magnification >= baselineFlux for every flux the program takes.
C8_AtLeastBaseline ==
    call.fn = "Magnification" /\ Apart =>
        /\ IsFin(call.res[1])
        /\ call.res[1] >= call.s_flux

\* C8 amended: Magnification >= baselineFlux for a baseline flux >= 0, and
\* Magnification <= baselineFlux for a baseline flux < 0.
C8_AwayFromZero ==
    call.fn = "Magnification" /\ Apart =>
        /\ IsFin(call.res[1])
        /\ call.s_flux >= 0 => call.res[1] >= call.s_flux
        /\ call.s_flux < 0 => call.res[1] <= call.s_flux

C8_Witness ==
    /\ call.fn = "Magnification"
    /\ Apart
    /\ call.s_flux > 0
    /\ call.res[1] > call.s_flux

====
